---- MODULE Spec2Model ----
(***************************************************************************)
(* Byte-level Huffman codec (huff.c, list.c).                              *)
(*                                                                         *)
(* One run of the model is `huff -c <file>` on an input file followed by   *)
(* `huff -d <file>.huf` on the archive (or on a truncated copy of it).     *)
(* A list is the sequence of its nodes from head to tail; a node is        *)
(* [data_ptr, left, right]; a pointer to a node is <<>> (NULL) or <<node>>. *)
(* The tree hanging off a node is held by value, which is exact because    *)
(* the program never shares a child between two parents.                   *)
(*                                                                         *)
(* list_insert obtains its node with malloc and never writes the node's    *)
(* left and right fields (list.c:252-253), so every node of a list has     *)
(* indeterminate children until build_tree assigns them, and merge_sort,   *)
(* which moves entries with list_remove/list_insert, hands back nodes      *)
(* whose children are again indeterminate.  What such a field reads as     *)
(* depends on the allocator the build runs with; variable heap holds that  *)
(* choice for the running process:                                         *)
(*   "recycle"  malloc returns the chunk freed last, contents intact, and  *)
(*              zero-filled memory when nothing was freed before;          *)
(*   "zero"     malloc returns zero-filled memory;                         *)
(*   "poison"   malloc returns memory filled with a non-zero pattern, so   *)
(*              the fields read as non-NULL pointers to nowhere.           *)
(* The choice is made afresh for huff -d, which is another process.        *)
(*                                                                         *)
(* Following a pointer to nowhere, and searching codes[] past its end,     *)
(* end the process: pc = "crashed".  Other uninitialised variables         *)
(* (sym_from_file, sym, freq, file_len, buf) take any value of UninitInts. *)
(*                                                                         *)
(* ListSpec is a second specification: a caller of list_insert and         *)
(* list_remove alone, the list held as list.c holds it, node by node with  *)
(* prev and next (variables list_ptr, nodes, call).  Spec leaves these     *)
(* three variables as list_construct sets them.                            *)
(***************************************************************************)
EXTENDS Integers, Sequences, FiniteSets, TLC

\* Bounds of the model.
MaxLen == 3          \* longest input file, in bytes
MaxSym == 3          \* largest byte value occurring in an input file
MaxEntries == 4      \* list growth at which a runaway read_freq_table is cut off

Syms == 0..MaxSym
Heaps == {"recycle", "zero", "poison"}

RECURSIVE SeqsUpTo(_, _)
SeqsUpTo(S, n) ==
    IF n = 0 THEN {<<>>}
    ELSE LET shorter == SeqsUpTo(S, n - 1)
         IN  shorter \cup {Append(s, x) : s \in {t \in shorter : Len(t) = n - 1}, x \in S}

Inputs == SeqsUpTo(Syms, MaxLen)

(***************************************************************************)
(* list.h: data_t, list_node_t.                                            *)
(***************************************************************************)
NULL == <<>>
JunkNode == [junk |-> TRUE]
Junk == <<JunkNode>>

data_t(s, f) == [sym |-> s, freq |-> f]

\* The (left, right) contents of a chunk.
Chunk(l, r) == [left |-> l, right |-> r]
ZeroChunk == Chunk(NULL, NULL)

\* What malloc hands to list_insert: stale is the content of the chunk freed
\* last (ZeroChunk when none was).
Fresh(h, stale) ==
    CASE h = "recycle" -> stale
      [] h = "zero"    -> ZeroChunk
      [] OTHER         -> Chunk(Junk, Junk)

list_node_t(d, l, r) == [data_ptr |-> d, left |-> l, right |-> r]

ChunkOf(node) == Chunk(node.left, node.right)

(***************************************************************************)
(* huff.c: the comparators.                                                *)
(***************************************************************************)
compare(a, b) ==
    IF a.sym < b.sym THEN 1
    ELSE IF a.sym > b.sym THEN -1
    ELSE 0

\* compare_freq with the test of the frequencies turned round.
compare_freq_reversed(a, b) ==
    IF a.freq > b.freq THEN 1
    ELSE IF a.freq < b.freq THEN -1
    ELSE IF a.sym < b.sym THEN 1
    ELSE IF a.sym > b.sym THEN -1
    ELSE 0

compare_freq(a, b) ==
    IF a.freq < b.freq THEN 1
    ELSE IF a.freq > b.freq THEN -1
    ELSE IF a.sym < b.sym THEN 1
    ELSE IF a.sym > b.sym THEN -1
    ELSE 0

(***************************************************************************)
(* list.c: the list operations.  An iterator is the position of its node   *)
(* in the list, 0 for NULL.                                                *)
(***************************************************************************)
list_size(list) == Len(list)

list_iter_front(list) == IF Len(list) = 0 THEN 0 ELSE 1

list_iter_back(list) == Len(list)

\* chunk: the indeterminate (left, right) of the malloc'ed node.
list_insert(list, elem, idx, chunk) ==
    LET newNode == list_node_t(elem, chunk.left, chunk.right)
    IN  IF idx = 0 THEN Append(list, newNode)
        ELSE IF idx = 1 THEN <<newNode>> \o list
        ELSE SubSeq(list, 1, idx - 1) \o <<newNode>> \o SubSeq(list, idx, Len(list))

\* The position list_remove takes its element from.
RemovedAt(list, idx) ==
    IF Len(list) = 1 THEN 1
    ELSE IF idx = 0 THEN Len(list)
    ELSE idx

\* [list, data, freed]: the list left, the data pointer returned and the
\* contents of the node freed.
list_remove(list, idx) ==
    IF Len(list) = 0
    THEN [list |-> list, data |-> NULL, freed |-> ZeroChunk]
    ELSE LET at == RemovedAt(list, idx)
         IN  [list  |-> SubSeq(list, 1, at - 1) \o SubSeq(list, at + 1, Len(list)),
              data  |-> list[at].data_ptr,
              freed |-> ChunkOf(list[at])]

\* Position of the first element equal to elem under comp_proc, 0 if none.
RECURSIVE FindFrom(_, _, _)
FindFrom(list, elem, rover) ==
    IF rover > Len(list) THEN 0
    ELSE IF compare(list[rover].data_ptr, elem) = 0 THEN rover
    ELSE FindFrom(list, elem, rover + 1)

list_elem_find(list, elem) == FindFrom(list, elem, 1)

\* Moves the k front elements of src to the tail of dst (the two split loops).
RECURSIVE MoveFront(_, _, _, _)
MoveFront(src, dst, k, h) ==
    IF k = 0 THEN [src |-> src, dst |-> dst]
    ELSE LET r == list_remove(src, 1)
         IN  MoveFront(r.list, list_insert(dst, r.data, 0, Fresh(h, r.freed)), k - 1, h)

\* The merge loop: L receives the heads of LeftList and RightList in turn.
\* The second comparison (list.c:179) is true whenever the first is false,
\* compare_freq(a, b) = -1 giving compare_freq(b, a) = 1.
RECURSIVE MergeLoop(_, _, _, _)
MergeLoop(LeftList, RightList, L, h) ==
    IF Len(LeftList) = 0 /\ Len(RightList) = 0 THEN L
    ELSE LET fromLeft ==
                 IF Len(LeftList) = 0 THEN FALSE
                 ELSE IF Len(RightList) = 0 THEN TRUE
                 ELSE compare_freq(LeftList[1].data_ptr, RightList[1].data_ptr) # -1
             r == IF fromLeft THEN list_remove(LeftList, 1) ELSE list_remove(RightList, 1)
             L2 == list_insert(L, r.data, 0, Fresh(h, r.freed))
         IN  IF fromLeft THEN MergeLoop(r.list, RightList, L2, h)
             ELSE MergeLoop(LeftList, r.list, L2, h)

RECURSIVE merge_sort(_, _)
merge_sort(L, h) ==
    IF Len(L) > 1
    THEN LET left  == MoveFront(L, <<>>, Len(L) \div 2, h)
             right == MoveFront(left.src, <<>>, Len(left.src), h)
         IN  MergeLoop(merge_sort(left.dst, h), merge_sort(right.dst, h), right.src, h)
    ELSE L

list_sort(L, h) == merge_sort(L, h)

(***************************************************************************)
(* huff.c: calc_freq.  The loop tests feof before each read, so it runs    *)
(* once more after the last byte: that fread stores nothing, the calloc'ed *)
(* tmp_data keeps sym = 0, and the tally below the read still runs.        *)
(***************************************************************************)
\* [list, file_len] after the iterations that start at byte pos + 1.
RECURSIVE calc_freq_loop(_, _, _, _, _)
calc_freq_loop(in, pos, list, file_len, h) ==
    LET atEof    == pos >= Len(in)
        sym      == IF atEof THEN 0 ELSE in[pos + 1]
        len2     == IF atEof THEN file_len ELSE file_len + 1
        found    == list_elem_find(list, data_t(sym, 0))
        list2    == IF found # 0
                    THEN [list EXCEPT ![found].data_ptr.freq = @ + 1]
                    ELSE list_insert(list, data_t(sym, 1), list_iter_back(list),
                                     Fresh(h, ZeroChunk))
    IN  IF atEof THEN [list |-> list2, file_len |-> len2]
        ELSE calc_freq_loop(in, pos + 1, list2, len2, h)

calc_freq(in, h) == calc_freq_loop(in, 0, <<>>, 0, h)

(***************************************************************************)
(* huff.c: store_freq_table.  fwrite(&data->freq, 1, 4, fpt) writes the    *)
(* int as the host lays it out; the least significant byte comes first on  *)
(* the little-endian hosts the program is built for.                       *)
(***************************************************************************)
IntBytes(n) ==
    <<n % 256, (n \div 256) % 256, (n \div 65536) % 256, (n \div 16777216) % 256>>

RECURSIVE StoreEntries(_, _)
StoreEntries(list, i) ==
    IF i > list_size(list) THEN <<>>
    ELSE <<list[i].data_ptr.sym>> \o IntBytes(list[i].data_ptr.freq)
         \o StoreEntries(list, i + 1)

store_freq_table(list, len) ==
    StoreEntries(list, 1) \o <<0>> \o IntBytes(0) \o IntBytes(len)

(***************************************************************************)
(* huff.c: build_tree, one iteration of its loop (lines 316-330).          *)
(***************************************************************************)
\* build_tree's iteration with the second entry read where it stands, not
\* removed.
build_tree_step_one_removed(list, h) ==
    LET Lc     == ChunkOf(list[list_iter_front(list)])
        r1     == list_remove(list, list_iter_front(list))
        L_node == list_node_t(r1.data, Lc.left, Lc.right)
        Rc     == ChunkOf(r1.list[list_iter_front(r1.list)])
        R_node == list_node_t(r1.list[list_iter_front(r1.list)].data_ptr,
                              Rc.left, Rc.right)
        parent_data == data_t(0, L_node.data_ptr.freq + R_node.data_ptr.freq)
        ins    == list_insert(r1.list, parent_data, list_iter_front(r1.list),
                              Fresh(h, r1.freed))
        linked == [ins EXCEPT ![1].left = <<L_node>>, ![1].right = <<R_node>>]
    IN  list_sort(linked, h)

\* Lines 316-328 with L_node and R_node linked the other way round.
build_tree_link_swapped(list, h) ==
    LET Lc     == ChunkOf(list[list_iter_front(list)])
        r1     == list_remove(list, list_iter_front(list))
        L_node == list_node_t(r1.data, Lc.left, Lc.right)
        Rc     == ChunkOf(r1.list[list_iter_front(r1.list)])
        r2     == list_remove(r1.list, list_iter_front(r1.list))
        R_node == list_node_t(r2.data, Rc.left, Rc.right)
        parent_data == data_t(0, L_node.data_ptr.freq + R_node.data_ptr.freq)
        ins    == list_insert(r2.list, parent_data, list_iter_front(r2.list),
                              Fresh(h, r2.freed))
    IN  [ins EXCEPT ![1].left = <<R_node>>, ![1].right = <<L_node>>]

\* Lines 316-328: the list with the two front entries taken out and the new
\* node, linked to their copies, at its front.
build_tree_link(list, h) ==
    LET Lc     == ChunkOf(list[list_iter_front(list)])
        r1     == list_remove(list, list_iter_front(list))
        L_node == list_node_t(r1.data, Lc.left, Lc.right)
        Rc     == ChunkOf(r1.list[list_iter_front(r1.list)])
        r2     == list_remove(r1.list, list_iter_front(r1.list))
        R_node == list_node_t(r2.data, Rc.left, Rc.right)
        parent_data == data_t(0, L_node.data_ptr.freq + R_node.data_ptr.freq)
        ins    == list_insert(r2.list, parent_data, list_iter_front(r2.list),
                              Fresh(h, r2.freed))
    IN  [ins EXCEPT ![1].left = <<L_node>>, ![1].right = <<R_node>>]

\* Lines 316-330: the links, then the re-sort.
build_tree_step(list, h) == list_sort(build_tree_link(list, h), h)

(***************************************************************************)
(* Walking a tree.  Following a pointer that is neither NULL nor the       *)
(* address of a node ends the process (pc = "crashed").                    *)
(***************************************************************************)
\* Some pointer reachable from node is a non-NULL pointer to nowhere.
RECURSIVE Wild(_)
Wild(node) ==
    \/ node.left = Junk
    \/ node.right = Junk
    \/ (node.left # NULL /\ node.left # Junk /\ Wild(node.left[1]))
    \/ (node.right # NULL /\ node.right # Junk /\ Wild(node.right[1]))

\* The number of nodes free_tree frees from N (a pointer).
RECURSIVE free_tree(_)
free_tree(N) ==
    IF N # NULL
    THEN free_tree(N[1].right) + free_tree(N[1].left) + 1
    ELSE 0

(***************************************************************************)
(* huff.c: build_codes.  code is the path from the root, level its length. *)
(***************************************************************************)
huffman_codes_t(s, c) == [symbol |-> s, code |-> c, code_len |-> Len(c)]

RECURSIVE build_codes_rec(_, _)
build_codes_rec(node, code) ==
    LET viaLeft  == IF node.left # NULL
                    THEN build_codes_rec(node.left[1], Append(code, 0))
                    ELSE <<>>
        viaRight == IF node.right # NULL
                    THEN build_codes_rec(node.right[1], Append(code, 1))
                    ELSE <<>>
        here     == IF node.right = NULL /\ node.left = NULL
                    THEN <<huffman_codes_t(node.data_ptr.sym, code)>>
                    ELSE <<>>
    IN  viaLeft \o viaRight \o here

\* The calloc'ed array of num_syms entries, filled from index 0.
build_codes(list, num_syms) ==
    LET filled == build_codes_rec(list[1], <<>>)
    IN  [i \in 1..num_syms |->
            IF i <= Len(filled) THEN filled[i] ELSE huffman_codes_t(0, <<>>)]

(***************************************************************************)
(* huff.c: huffman_encode.  bit_buffer is held as its buffer_size leading  *)
(* bits; all bits below them are 0.                                        *)
(***************************************************************************)
\* bit_buffer >> 56
TopByte(bits) ==
    LET b(i) == IF i <= Len(bits) THEN bits[i] ELSE 0
    IN  128 * b(1) + 64 * b(2) + 32 * b(3) + 16 * b(4)
        + 8 * b(5) + 4 * b(6) + 2 * b(7) + b(8)

\* while (codes[i].symbol != sym_from_file) i++;  0: ran off the array.
RECURSIVE CodeIndex(_, _, _)
CodeIndex(codes, sym, i) ==
    IF i > Len(codes) THEN 0
    ELSE IF codes[i].symbol = sym THEN i
    ELSE CodeIndex(codes, sym, i + 1)

\* while (buffer_size >= 8) { write bit_buffer >> 56; bit_buffer <<= 8; }
RECURSIVE WriteFullBytes(_, _)
WriteFullBytes(bits, out) ==
    IF Len(bits) >= 8
    THEN WriteFullBytes(SubSeq(bits, 9, Len(bits)), Append(out, TopByte(bits)))
    ELSE [bits |-> bits, out |-> out]

\* The loop from the read at byte pos + 1 on.  sym_from_file is the value
\* the variable holds before the read.  The loop tests feof before each
\* read, so its last iteration reads nothing and encodes the stale value.
RECURSIVE encode_loop(_, _, _, _, _, _)
encode_loop(in, pos, sym_from_file, codes, bits, out) ==
    LET atEof == pos >= Len(in)
        sym   == IF atEof THEN sym_from_file ELSE in[pos + 1]
        i     == CodeIndex(codes, sym, 1)
        w     == WriteFullBytes(bits \o codes[i].code, out)
    IN  IF i = 0 THEN [ok |-> FALSE, out |-> out]
        ELSE IF atEof THEN [ok |-> TRUE, out |-> Append(w.out, TopByte(w.bits))]
        ELSE encode_loop(in, pos + 1, sym, codes, w.bits, w.out)

huffman_encode(in, codes, uninit) == encode_loop(in, 0, uninit, codes, <<>>, <<>>)

\* The code buffers build_codes leaves allocated: the array and one buffer
\* per code of non-zero length.
CodeBuffers(codes) == 1 + Cardinality({i \in 1..Len(codes) : codes[i].code_len > 0})

(***************************************************************************)
(* stdio: fread(ptr, 1, n, fpt) on the bytes of stream from position pos.  *)
(* It stores the bytes there are, leaves the rest of the buffer (old) as   *)
(* it was, and sets the end-of-file indicator when fewer than n are left.  *)
(***************************************************************************)
fread(stream, pos, n, old) ==
    LET got == IF Len(stream) - pos >= n THEN n ELSE Len(stream) - pos
    IN  [val |-> [k \in 1..n |-> IF k <= got THEN stream[pos + k] ELSE old[k]],
         pos |-> pos + got,
         eof |-> got < n]

\* The int held in four bytes, least significant first.
BytesInt(b) == b[1] + 256 * b[2] + 65536 * b[3] + 16777216 * b[4]

\* The values an uninitialised int or byte is let to hold.
UninitInts == {0, 1}

(***************************************************************************)
(* huff.c: huffman_decode, the walk from a node to a leaf (lines 195-209). *)
(* [crash, node, buf, ptr, pos, eof]                                       *)
(***************************************************************************)
Bit(buf, ptr) == (buf \div (2 ^ ptr)) % 2

RECURSIVE walk(_, _, _, _, _, _)
walk(node, buf, ptr, stream, pos, eof) ==
    IF node.left # NULL /\ node.right # NULL
    THEN LET child == IF Bit(buf, ptr) = 0 THEN node.left ELSE node.right
             more  == fread(stream, pos, 1, <<buf>>)
             buf2  == IF ptr - 1 < 0 THEN more.val[1] ELSE buf
             ptr2  == IF ptr - 1 < 0 THEN 7 ELSE ptr - 1
             pos2  == IF ptr - 1 < 0 THEN more.pos ELSE pos
             eof2  == IF ptr - 1 < 0 THEN eof \/ more.eof ELSE eof
         IN  IF child = Junk
             THEN [crash |-> TRUE, node |-> node, buf |-> buf2, ptr |-> ptr2,
                   pos |-> pos2, eof |-> eof2]
             ELSE walk(child[1], buf2, ptr2, stream, pos2, eof2)
    ELSE [crash |-> FALSE, node |-> node, buf |-> buf, ptr |-> ptr,
          pos |-> pos, eof |-> eof]

\* T->head
HeadOf(list) == IF Len(list) = 0 THEN NULL ELSE <<list[1]>>

\* The end of the sentinel entry in a header of n entries.
HeaderEnd(n) == 5 * (n + 1)

VARIABLES
    input,        \* the bytes of the file given to huff -c
    proc,         \* the running process: "c" (huff -c) or "d" (huff -d)
    heap,         \* the allocator behaviour of the running process
    pc,           \* the statement the run is at
    list,         \* L: the list, later the tree hanging off its head
    file_len,     \* file_len of the running process
    num_symbols,  \* num_symbols in huffman_compress
    codes,        \* the array build_codes returns
    archive,      \* the bytes written to the .huf file
    live,         \* allocations not yet freed: nodes, data entries, code buffers
    ctree,        \* the tree huffman_compress encoded with
    stream,       \* the bytes of the file given to huff -d
    pos,          \* the read position in stream
    eof,          \* the end-of-file indicator of stream
    sym,          \* sym in read_freq_table
    freq,         \* freq in read_freq_table, as its four bytes
    buf,          \* buf in huffman_decode
    ptr,          \* ptr in huffman_decode
    sym_count,    \* sym_count in huffman_decode
    out,          \* the bytes written to the recovered file
    list_ptr,     \* a list_t of list.c: head, tail, current_list_size
    nodes,        \* the list_node_t's allocated for it, by address
    call          \* the last call made on it

cvars == <<num_symbols, codes, archive, ctree>>
dvars == <<stream, pos, eof, sym, freq, buf, ptr, sym_count, out>>
hvars == <<input, proc, heap, pc, list, file_len, live, cvars, dvars>>
lvars == <<list_ptr, nodes, call>>
vars == <<hvars, lvars>>

\* list_construct: an empty list_t and no node; an address is 1..MaxNodes
\* and 0 is the null pointer.
ListConstruct ==
    /\ list_ptr = [head |-> 0, tail |-> 0, current_list_size |-> 0]
    /\ nodes = <<>>
    /\ call = [op |-> "list_construct"]

Init ==
    /\ ListConstruct
    /\ input \in Inputs
    /\ proc = "c"
    /\ heap \in Heaps
    /\ pc = "calc_freq"
    /\ list = <<>>
    /\ file_len = 0
    /\ num_symbols = 0
    /\ codes = <<>>
    /\ archive = <<>>
    /\ live = [nodes |-> 0, data |-> 0, codes |-> 0]
    /\ ctree = NULL
    /\ stream = <<>>
    /\ pos = 0
    /\ eof = FALSE
    /\ sym = 0
    /\ freq = IntBytes(0)
    /\ buf = 0
    /\ ptr = 0
    /\ sym_count = 0
    /\ out = <<>>

\* huffman_compress, lines 96-100.
CalcFreq ==
    /\ pc = "calc_freq"
    /\ LET r == calc_freq(input, heap)
       IN  /\ list' = r.list
           /\ file_len' = r.file_len
           /\ num_symbols' = list_size(r.list)
           /\ live' = [live EXCEPT !.nodes = @ + list_size(r.list),
                                   !.data = @ + list_size(r.list)]
    /\ pc' = "sort"
    /\ UNCHANGED <<lvars, input, proc, heap, codes, archive, ctree, dvars>>

\* huffman_compress, line 103.
Sort ==
    /\ pc = "sort"
    /\ list' = list_sort(list, heap)
    /\ pc' = "store_freq_table"
    /\ UNCHANGED <<lvars, input, proc, heap, file_len, live, cvars, dvars>>

\* huffman_compress, line 106.
StoreFreqTable ==
    /\ pc = "store_freq_table"
    /\ archive' = store_freq_table(list, file_len)
    /\ pc' = "build_tree"
    /\ UNCHANGED <<lvars, input, proc, heap, list, file_len, live, num_symbols, codes,
                   ctree, dvars>>

\* build_tree, one iteration: two nodes calloc'ed, two removed, one inserted,
\* one data entry calloc'ed.
BuildTreeStep ==
    /\ pc = "build_tree"
    /\ list_size(list) > 1
    /\ list' = build_tree_step(list, heap)
    /\ live' = [live EXCEPT !.nodes = @ + 1, !.data = @ + 1]
    /\ UNCHANGED <<lvars, input, proc, heap, pc, file_len, cvars, dvars>>

\* build_tree returns, to huffman_compress line 112 or huffman_decompress
\* line 133.
BuildTreeReturn ==
    /\ pc = "build_tree"
    /\ ~(list_size(list) > 1)
    /\ ctree' = IF proc = "c" THEN HeadOf(list) ELSE ctree
    /\ pc' = IF proc = "c" THEN "build_codes" ELSE "decode"
    /\ UNCHANGED <<lvars, input, proc, heap, list, file_len, live, num_symbols, codes,
                   archive, dvars>>

\* huffman_compress, line 112.
BuildCodes ==
    /\ pc = "build_codes"
    /\ IF Wild(list[1])
       THEN /\ pc' = "crashed"
            /\ UNCHANGED <<codes, live>>
       ELSE /\ codes' = build_codes(list, num_symbols)
            /\ live' = [live EXCEPT !.codes = @ + CodeBuffers(codes')]
            /\ pc' = "encode"
    /\ UNCHANGED <<lvars, input, proc, heap, list, file_len, num_symbols, archive, ctree,
                   dvars>>

\* huffman_compress, line 115.  sym_from_file is uninitialised when the loop
\* starts.
Encode ==
    /\ pc = "encode"
    /\ \E uninit \in UninitInts :
          LET r == huffman_encode(input, codes, uninit)
          IN  /\ archive' = archive \o r.out
              /\ pc' = IF r.ok THEN "tree_destruct" ELSE "crashed"
    /\ UNCHANGED <<lvars, input, proc, heap, list, file_len, live, num_symbols, codes,
                   ctree, dvars>>

\* huffman_compress lines 117-118, huffman_decompress lines 135-136.
TreeDestruct ==
    /\ pc = "tree_destruct"
    /\ IF Len(list) > 0 /\ Wild(list[1])
       THEN /\ pc' = "crashed"
            /\ UNCHANGED <<list, live>>
       ELSE /\ live' = [live EXCEPT !.nodes = @ - free_tree(HeadOf(list)),
                                    !.data = @ - free_tree(HeadOf(list))]
            /\ list' = <<>>
            /\ pc' = IF proc = "c" THEN "compressed" ELSE "done"
    /\ UNCHANGED <<lvars, input, proc, heap, file_len, cvars, dvars>>

\* huff -d is run on the archive, or on a copy of it that ends before the
\* end of the sentinel entry.
StartDecompress ==
    /\ pc = "compressed"
    /\ proc' = "d"
    /\ heap' \in Heaps
    /\ \E k \in 0..Len(archive) :
          /\ k = Len(archive) \/ k < HeaderEnd(num_symbols)
          /\ stream' = SubSeq(archive, 1, k)
    /\ pos' = 0
    /\ eof' = FALSE
    /\ live' = [nodes |-> 0, data |-> 0, codes |-> 0]
    /\ pc' = "read_freq_table"
    /\ UNCHANGED <<lvars, input, list, file_len, cvars, sym, freq, buf, ptr, sym_count, out>>

\* read_freq_table, lines 293-296.  sym and freq are uninitialised.
ReadFreqTable ==
    /\ pc = "read_freq_table"
    /\ \E usym \in UninitInts, ufreq \in UninitInts :
          LET r1 == fread(stream, pos, 1, <<usym>>)
              r2 == fread(stream, r1.pos, 4, IntBytes(ufreq))
          IN  /\ sym' = r1.val[1]
              /\ freq' = r2.val
              /\ pos' = r2.pos
              /\ eof' = (r1.eof \/ r2.eof)
    /\ list' = <<>>
    /\ pc' = "read_entry"
    /\ UNCHANGED <<lvars, input, proc, heap, file_len, live, cvars, stream, buf, ptr,
                   sym_count, out>>

\* read_freq_table, one iteration of its loop (lines 299-304).
ReadEntry ==
    /\ pc = "read_entry"
    /\ BytesInt(freq) # 0
    /\ list_size(list) < MaxEntries
    /\ list' = list_insert(list, data_t(sym, BytesInt(freq)), list_iter_back(list),
                           Fresh(heap, ZeroChunk))
    /\ live' = [live EXCEPT !.nodes = @ + 1, !.data = @ + 1]
    /\ LET r1 == fread(stream, pos, 1, <<sym>>)
           r2 == fread(stream, r1.pos, 4, freq)
       IN  /\ sym' = r1.val[1]
           /\ freq' = r2.val
           /\ pos' = r2.pos
           /\ eof' = (eof \/ r1.eof \/ r2.eof)
    /\ UNCHANGED <<lvars, input, proc, heap, pc, file_len, cvars, stream, buf, ptr,
                   sym_count, out>>

\* read_freq_table, lines 306-309.  *file_len is uninitialised in
\* huffman_decompress.
ReadFreqReturn ==
    /\ pc = "read_entry"
    /\ BytesInt(freq) = 0
    /\ \E ulen \in UninitInts :
          LET r == fread(stream, pos, 4, IntBytes(ulen))
          IN  /\ file_len' = BytesInt(r.val)
              /\ pos' = r.pos
              /\ eof' = (eof \/ r.eof)
    /\ list' = list_sort(list, heap)
    /\ pc' = "build_tree"
    /\ UNCHANGED <<lvars, input, proc, heap, live, cvars, stream, sym, freq, buf, ptr,
                   sym_count, out>>

\* huffman_decode, lines 182-188.  buf is uninitialised.
Decode ==
    /\ pc = "decode"
    /\ \E ubuf \in UninitInts :
          LET r == fread(stream, pos, 1, <<ubuf>>)
          IN  /\ buf' = r.val[1]
              /\ pos' = r.pos
              /\ eof' = (eof \/ r.eof)
    /\ ptr' = 7
    /\ sym_count' = 0
    /\ out' = <<>>
    /\ pc' = "decode_test"
    /\ UNCHANGED <<lvars, input, proc, heap, list, file_len, live, cvars, stream, sym, freq>>

\* huffman_decode, line 190: the loop test.
DecodeTest ==
    /\ pc = "decode_test"
    /\ pc' = IF ~eof THEN "decode_symbol" ELSE "tree_destruct"
    /\ UNCHANGED <<lvars, input, proc, heap, list, file_len, live, cvars, dvars>>

\* huffman_decode, lines 192-215: one symbol.
DecodeSymbol ==
    /\ pc = "decode_symbol"
    /\ IF Len(list) = 0
       THEN /\ pc' = "crashed"
            /\ UNCHANGED <<buf, ptr, pos, eof, sym_count, out>>
       ELSE LET w == walk(list[1], buf, ptr, stream, pos, eof)
            IN  /\ buf' = w.buf
                /\ ptr' = w.ptr
                /\ pos' = w.pos
                /\ eof' = w.eof
                /\ IF w.crash
                   THEN /\ pc' = "crashed"
                        /\ UNCHANGED <<sym_count, out>>
                   ELSE /\ pc' = "decode_test"
                        /\ IF sym_count < file_len
                           THEN /\ out' = Append(out, w.node.data_ptr.sym)
                                /\ sym_count' = sym_count + 1
                           ELSE UNCHANGED <<sym_count, out>>
    /\ UNCHANGED <<lvars, input, proc, heap, list, file_len, live, cvars, stream, sym, freq>>

Next ==
    \/ CalcFreq
    \/ Sort
    \/ StoreFreqTable
    \/ BuildTreeStep
    \/ BuildTreeReturn
    \/ BuildCodes
    \/ Encode
    \/ TreeDestruct
    \/ StartDecompress
    \/ ReadFreqTable
    \/ ReadEntry
    \/ ReadFreqReturn
    \/ Decode
    \/ DecodeTest
    \/ DecodeSymbol

Spec == Init /\ [][Next]_vars

\* huffman_decode runs: the process in it takes its next step.
FairSpec == Spec /\ WF_vars(Decode) /\ WF_vars(DecodeTest) /\ WF_vars(DecodeSymbol)

(***************************************************************************)
(* list.c at the level of its pointers.  A list_t is list_ptr, the nodes   *)
(* allocated for it are the function nodes from addresses to their         *)
(* data_ptr, prev and next (left and right play no part in list_insert and *)
(* list_remove), and ListSpec is a caller that inserts and removes with    *)
(* any iterator valid for the list.  A data_t pointer is a number of       *)
(* 1..MaxData, 0 the null pointer.                                         *)
(***************************************************************************)
MaxNodes == 3        \* nodes the list may hold at once
MaxData == 2         \* distinct data_t blocks a caller inserts

Addrs == 1..MaxNodes
Elems == 1..MaxData

\* free(a)
Freed(m, a) == [x \in DOMAIN m \ {a} |-> m[x]]

\* list_insert with the link idx_ptr->prev = newNode of its last branch
\* left out.
list_insert_nodes_unlinked(lp, m, elem_ptr, idx_ptr, newNode) ==
    LET m0   == (newNode :> [data_ptr |-> elem_ptr, prev |-> 0, next |-> 0]) @@ m
        size == lp.current_list_size + 1
    IN  IF idx_ptr = 0
        THEN [list_ptr |-> [head |-> IF lp.current_list_size = 0 THEN newNode
                                     ELSE lp.head,
                            tail |-> newNode, current_list_size |-> size],
              nodes |-> IF lp.current_list_size = 0
                        THEN [m0 EXCEPT ![newNode].prev = lp.tail]
                        ELSE [m0 EXCEPT ![newNode].prev = lp.tail,
                                        ![lp.tail].next = newNode]]
        ELSE IF m[idx_ptr].prev = 0
        THEN [list_ptr |-> [lp EXCEPT !.head = newNode, !.current_list_size = size],
              nodes |-> [m0 EXCEPT ![newNode].next = lp.head,
                                   ![lp.head].prev = newNode]]
        ELSE [list_ptr |-> [lp EXCEPT !.current_list_size = size],
              nodes |-> [m0 EXCEPT ![newNode].next = idx_ptr,
                                   ![newNode].prev = m[idx_ptr].prev,
                                   ![m[idx_ptr].prev].next = newNode]]

\* [list_ptr, nodes] after list_insert(list_ptr, elem_ptr, idx_ptr), malloc
\* having returned newNode.
list_insert_nodes(lp, m, elem_ptr, idx_ptr, newNode) ==
    LET m0   == (newNode :> [data_ptr |-> elem_ptr, prev |-> 0, next |-> 0]) @@ m
        size == lp.current_list_size + 1
    IN  IF idx_ptr = 0
        THEN [list_ptr |-> [head |-> IF lp.current_list_size = 0 THEN newNode
                                     ELSE lp.head,
                            tail |-> newNode, current_list_size |-> size],
              nodes |-> IF lp.current_list_size = 0
                        THEN [m0 EXCEPT ![newNode].prev = lp.tail]
                        ELSE [m0 EXCEPT ![newNode].prev = lp.tail,
                                        ![lp.tail].next = newNode]]
        ELSE IF m[idx_ptr].prev = 0
        THEN [list_ptr |-> [lp EXCEPT !.head = newNode, !.current_list_size = size],
              nodes |-> [m0 EXCEPT ![newNode].next = lp.head,
                                   ![lp.head].prev = newNode]]
        ELSE [list_ptr |-> [lp EXCEPT !.current_list_size = size],
              nodes |-> [m0 EXCEPT ![newNode].next = idx_ptr,
                                   ![newNode].prev = m[idx_ptr].prev,
                                   ![m[idx_ptr].prev].next = newNode,
                                   ![idx_ptr].prev = newNode]]

\* [list_ptr, nodes, data] after list_remove(list_ptr, idx_ptr), data being
\* the pointer it returns.
list_remove_nodes(lp, m, idx_ptr) ==
    LET size == lp.current_list_size - 1
    IN  IF lp.current_list_size = 0
        THEN [list_ptr |-> lp, nodes |-> m, data |-> 0]
        ELSE IF lp.current_list_size = 1
        THEN [list_ptr |-> [head |-> 0, tail |-> 0, current_list_size |-> size],
              nodes |-> Freed(m, lp.head),
              data |-> m[lp.head].data_ptr]
        ELSE IF idx_ptr = 0
        THEN LET old  == lp.tail
                 tail == m[old].prev
             IN  [list_ptr |-> [lp EXCEPT !.tail = tail, !.current_list_size = size],
                  nodes |-> [Freed(m, old) EXCEPT ![tail].next = 0],
                  data |-> m[old].data_ptr]
        ELSE LET prev == m[idx_ptr].prev
                 next == m[idx_ptr].next
                 m1   == IF prev # 0 THEN [m EXCEPT ![prev].next = next] ELSE m
                 m2   == IF next # 0 THEN [m1 EXCEPT ![next].prev = prev] ELSE m1
             IN  [list_ptr |-> [head |-> IF idx_ptr = lp.head THEN next ELSE lp.head,
                                tail |-> IF idx_ptr = lp.tail THEN prev ELSE lp.tail,
                                current_list_size |-> size],
                  nodes |-> Freed(m2, idx_ptr),
                  data |-> m[idx_ptr].data_ptr]

\* The addresses reached from at by following next, at most fuel of them.
RECURSIVE Chain(_, _, _)
Chain(m, at, fuel) ==
    IF at \notin DOMAIN m \/ fuel = 0 THEN <<>>
    ELSE <<at>> \o Chain(m, m[at].next, fuel - 1)

\* The list from head to tail: each node's address and data pointer.
Entries(lp, m) ==
    LET ch == Chain(m, lp.head, MaxNodes + 1)
    IN  [i \in 1..Len(ch) |-> [at |-> ch[i], data_ptr |-> m[ch[i]].data_ptr]]

\* The iterators a caller may pass: NULL, or a node of the list.
Iters == {0} \cup DOMAIN nodes

ListInsert ==
    /\ list_ptr.current_list_size < MaxNodes
    /\ \E elem_ptr \in Elems, idx_ptr \in Iters, newNode \in Addrs \ DOMAIN nodes :
           LET r == list_insert_nodes(list_ptr, nodes, elem_ptr, idx_ptr, newNode)
           IN  /\ list_ptr' = r.list_ptr
               /\ nodes' = r.nodes
               /\ call' = [op |-> "list_insert", idx_ptr |-> idx_ptr,
                           before |-> Entries(list_ptr, nodes),
                           data |-> elem_ptr, at |-> newNode]
    /\ UNCHANGED hvars

\* list_remove asserts a NULL iterator when the list is empty.
ListRemove ==
    /\ \E idx_ptr \in Iters :
           /\ list_ptr.current_list_size = 0 => idx_ptr = 0
           /\ LET r == list_remove_nodes(list_ptr, nodes, idx_ptr)
              IN  /\ list_ptr' = r.list_ptr
                  /\ nodes' = r.nodes
                  /\ call' = [op |-> "list_remove", idx_ptr |-> idx_ptr,
                                 before |-> Entries(list_ptr, nodes),
                              data |-> r.data, at |-> idx_ptr]
    /\ UNCHANGED hvars

\* The caller of list.c alone: no huff process runs.
ListInit ==
    /\ ListConstruct
    /\ input = <<>>
    /\ proc = "c"
    /\ heap = "zero"
    /\ pc = "list"
    /\ list = <<>>
    /\ file_len = 0
    /\ num_symbols = 0
    /\ codes = <<>>
    /\ archive = <<>>
    /\ live = [nodes |-> 0, data |-> 0, codes |-> 0]
    /\ ctree = NULL
    /\ stream = <<>>
    /\ pos = 0
    /\ eof = FALSE
    /\ sym = 0
    /\ freq = IntBytes(0)
    /\ buf = 0
    /\ ptr = 0
    /\ sym_count = 0
    /\ out = <<>>

ListNext ==
    \/ ListInsert
    \/ ListRemove

ListSpec == ListInit /\ [][ListNext]_vars

(***************************************************************************)
(* Vocabulary of the properties.                                           *)
(***************************************************************************)
\* The number of occurrences of byte s in a file.
Occurrences(in, s) == Cardinality({i \in 1..Len(in) : in[i] = s})

\* The byte values occurring in a file.
Occurring(in) == {in[i] : i \in 1..Len(in)}

\* Entry i of the frequency table at the start of an archive.
HeaderSym(a, i) == a[5 * i - 4]
HeaderFreq(a, i) == BytesInt(SubSeq(a, 5 * i - 3, 5 * i))

\* The length of the header of an archive of n entries.
HeaderLen(n) == HeaderEnd(n) + 4

\* The bytes of an archive after its header.
Bitstream(a, n) == SubSeq(a, HeaderLen(n) + 1, Len(a))

Leaf(node) == node.left = NULL /\ node.right = NULL

IsPrefix(c, d) == Len(c) <= Len(d) /\ SubSeq(d, 1, Len(c)) = c

\* The code the table gives a symbol.
CodeOf(cs, s) == cs[CHOOSE i \in 1..Len(cs) : cs[i].symbol = s].code

\* The codes of the bytes of a file, in file order.
RECURSIVE CodeBits(_, _, _)
CodeBits(cs, in, i) ==
    IF i > Len(in) THEN <<>> ELSE CodeOf(cs, in[i]) \o CodeBits(cs, in, i + 1)

\* A bit string as bytes, most significant bit first, the last byte padded
\* with 0 bits.
Packed(bits) ==
    LET b(i) == IF i <= Len(bits) THEN bits[i] ELSE 0
    IN  [k \in 1..((Len(bits) + 7) \div 8) |->
            128 * b(8 * k - 7) + 64 * b(8 * k - 6) + 32 * b(8 * k - 5)
            + 16 * b(8 * k - 4) + 8 * b(8 * k - 3) + 4 * b(8 * k - 2)
            + 2 * b(8 * k - 1) + b(8 * k)]

\* huff -d was given the archive huff -c wrote, whole.
Intact == proc = "d" /\ stream = archive

(***************************************************************************)
(* C1.  Round trip: huffman_decompress, run on the archive huffman_compress*)
(* wrote for the input, produces an output equal to the input (same bytes, *)
(* same order, same length): having rebuilt the tree, it comes to the end  *)
(* of huffman_decode with out = input.  Stated for the allocator that is   *)
(* kindest to the uninitialised child pointers, the recycling one.         *)
(***************************************************************************)
C1_RoundTrip ==
    (pc = "decode" /\ Intact /\ heap = "recycle")
        ~> (pc = "tree_destruct" /\ out = input)

(***************************************************************************)
(* C2.  On every archive written by huffman_compress, huffman_decode       *)
(* terminates, and when it does it has written exactly file_len symbols.   *)
(* Stated for the recycling allocator, as C1.                              *)
(***************************************************************************)
C2_DecodeTerminates ==
    (pc = "decode" /\ Intact /\ heap = "recycle")
        ~> (pc \notin {"decode", "decode_test", "decode_symbol"}
            /\ sym_count = file_len /\ Len(out) = file_len)

(***************************************************************************)
(* C3.  The bytes huffman_encode writes after the header are the codes of  *)
(* the input bytes, one code per input byte in input order, packed most    *)
(* significant bit first, the last byte zero-padded: ceil(bits / 8) bytes, *)
(* none for the empty input.                                               *)
(***************************************************************************)
C3_EncodedBitstream ==
    (proc = "c" /\ pc = "tree_destruct")
        => Bitstream(archive, num_symbols) = Packed(CodeBits(codes, input, 1))

(***************************************************************************)
(* C4.  After calc_freq the list holds exactly one entry per byte value    *)
(* occurring in the input and none for any other value, each entry's freq  *)
(* is the number of occurrences of its symbol, and file_len is the number  *)
(* of bytes of the input; the list is empty for the empty input.           *)
(***************************************************************************)
C4_FrequencyTable ==
    pc = "sort"
        => /\ file_len = Len(input)
           /\ Len(list) = Cardinality(Occurring(input))
           /\ \A i \in 1..Len(list) :
                 /\ list[i].data_ptr.sym \in Occurring(input)
                 /\ list[i].data_ptr.freq = Occurrences(input, list[i].data_ptr.sym)
           /\ \A s \in Occurring(input) :
                 \E i \in 1..Len(list) : list[i].data_ptr.sym = s

(***************************************************************************)
(* C5.  When the tree is a single leaf, build_codes gives its symbol a     *)
(* code of length 1, the single bit 0.                                     *)
(***************************************************************************)
C5_SingleLeafCode ==
    (pc = "encode" /\ Leaf(list[1]))
        => (codes[1].code_len = 1 /\ codes[1].code = <<0>>)

(***************************************************************************)
(* C6.  The tree huffman_decompress builds from the frequency table of the *)
(* archive is the tree huffman_compress built when it wrote the archive:   *)
(* the same shape and the same symbol at every leaf.                       *)
(***************************************************************************)
C6_SameTree ==
    (pc = "decode" /\ Intact) => HeadOf(list) = ctree

(***************************************************************************)
(* C7.  When the stream ends before the sentinel entry has been read,      *)
(* read_freq_table adds no list entry for data that was not in the stream: *)
(* every entry of its list was read from five bytes of the stream.         *)
(***************************************************************************)
C7_NoEntryPastEnd ==
    (proc = "d" /\ pc = "read_entry") => 5 * Len(list) <= Len(stream)

(***************************************************************************)
(* C8.  build_codes records exactly one code per symbol of the frequency   *)
(* table, and of the codes of two distinct symbols neither is a prefix of  *)
(* the other.                                                              *)
(***************************************************************************)
C8_PrefixFreeCodes ==
    pc = "encode"
        => /\ \A n \in 1..num_symbols :
                 Cardinality({i \in 1..Len(codes) :
                                 codes[i].symbol = HeaderSym(archive, n)}) = 1
           /\ \A i, j \in 1..Len(codes) :
                 codes[i].symbol # codes[j].symbol
                     => ~IsPrefix(codes[i].code, codes[j].code)

C10_AllFreed ==
    pc \in {"compressed", "done"} => live = [nodes |-> 0, data |-> 0, codes |-> 0]

(***************************************************************************)
(* The list of sequences used by the huff process is the list of pointers: *)
(* after every call of ListSpec, the entries from head to tail are what    *)
(* list_insert and list_remove on sequences make of the entries before.    *)
(***************************************************************************)
AsList(e) == [i \in 1..Len(e) |-> list_node_t(e[i].data_ptr, NULL, NULL)]

PositionOf(e, a) == IF a = 0 THEN 0 ELSE CHOOSE i \in 1..Len(e) : e[i].at = a

ListRefinesSequence ==
    LET now    == AsList(Entries(list_ptr, nodes))
        before == AsList(call.before)
        idx    == PositionOf(call.before, call.idx_ptr)
    IN  /\ call.op = "list_insert" =>
               now = list_insert(before, call.data, idx, ZeroChunk)
        /\ call.op = "list_remove" =>
               /\ now = list_remove(before, idx).list
               /\ call.data = IF Len(before) = 0 THEN 0 ELSE list_remove(before, idx).data

(***************************************************************************)
(* C11.  list_remove called on a non-empty list with a NULL iterator       *)
(* removes and returns the element at the head of the list, as             *)
(* list_remove(L, list_iter_front(L)) does, whatever the size of the list: *)
(* the pointer returned is the head's data pointer and the list left is    *)
(* the list before without its first node.                                 *)
(***************************************************************************)
C11_RemoveNullTakesHead ==
    (call.op = "list_remove" /\ call.idx_ptr = 0 /\ Len(call.before) > 0) =>
        /\ call.data = call.before[1].data_ptr
        /\ Entries(list_ptr, nodes) = Tail(call.before)


(***************************************************************************)
(* C12.  build_tree started on a sorted list of n >= 1 entries makes the   *)
(* list one entry shorter in each iteration and returns after n - 1        *)
(* iterations with exactly one entry in the list, the root; for n = 1 it   *)
(* returns at once, the root being the single entry of the table.          *)
(* n is num_symbols when huff -c runs and when huff -d reads the archive   *)
(* whole.  The list has one node per entry when build_tree starts and each *)
(* iteration leaves one more node allocated (two calloc'ed, one malloc'ed  *)
(* by list_insert, two freed by list_remove), which counts the iterations. *)
(***************************************************************************)
Iterations == live.nodes - num_symbols

WholeTable == proc = "c" \/ Intact

C12_BuildTreeSize ==
    /\ []((pc = "build_tree" /\ WholeTable) =>
              /\ Len(list) >= 1
              /\ Iterations = num_symbols - Len(list))
    /\ []((pc \in {"build_codes", "decode"} /\ WholeTable) =>
              /\ Len(list) = 1
              /\ Iterations = num_symbols - 1
              /\ num_symbols = 1 =>
                     list[1].data_ptr = data_t(HeaderSym(archive, 1),
                                               HeaderFreq(archive, 1)))
    /\ [][/\ (pc = "build_tree" /\ pc' = "build_tree") =>
                 (Len(list) > 1 /\ Len(list') = Len(list) - 1)
          /\ (pc = "build_tree" /\ pc' # "build_tree") =>
                 (Len(list) <= 1 /\ list' = list)]_vars

\* build_tree has returned from a table of four entries after three
\* iterations.
C12_Witness ==
    /\ proc = "c"
    /\ pc = "build_codes"
    /\ num_symbols = 4
    /\ Iterations = 3
    /\ Len(list) = 1


Count(l, x) == Cardinality({i \in 1..Len(l) : l[i] = x})

SameNodes(l, m) ==
    /\ Len(l) = Len(m)
    /\ \A i \in 1..Len(l) : Count(m, l[i]) = Count(l, l[i])

C14_SortKeepsChildren ==
    [][(pc = "build_tree" /\ pc' = "build_tree") =>
          SameNodes(build_tree_link(list, heap), list')]_vars

\* The same for the entries' data alone.
SortKeepsData ==
    [][(pc = "build_tree" /\ pc' = "build_tree") =>
          LET Data(l) == [i \in 1..Len(l) |-> list_node_t(l[i].data_ptr, NULL, NULL)]
          IN  SameNodes(Data(build_tree_link(list, heap)), Data(list'))]_vars

\* The same where malloc hands back the chunk freed last.
SortKeepsChildrenRecycled ==
    [][(pc = "build_tree" /\ pc' = "build_tree" /\ heap = "recycle") =>
          SameNodes(build_tree_link(list, heap), list')]_vars


(***************************************************************************)
(* C15.  After any sequence of list_insert and list_remove calls with      *)
(* iterators valid for the list, the list is well formed:                  *)
(* current_list_size is the number of nodes reached from head by following *)
(* next, the last of them is tail, head has no prev and tail has no next,  *)
(* n.next.prev is n for every node n that has a next, and head and tail    *)
(* are both NULL exactly when the size is 0.  Every pointer followed is    *)
(* NULL or the address of an allocated node.                               *)
(***************************************************************************)
WellFormed(lp, m) ==
    LET ch == Chain(m, lp.head, MaxNodes + 1)
        n  == Len(ch)
    IN  /\ lp.current_list_size = n
        /\ lp.head \in DOMAIN m \cup {0}
        /\ lp.tail \in DOMAIN m \cup {0}
        /\ \A a \in DOMAIN m : m[a].next \in DOMAIN m \cup {0}
        /\ \A a \in DOMAIN m : m[a].prev \in DOMAIN m \cup {0}
        /\ n > 0 => /\ ch[n] = lp.tail
                    /\ m[lp.head].prev = 0
                    /\ m[lp.tail].next = 0
        /\ \A i \in 1..(n - 1) : m[m[ch[i]].next].prev = ch[i]
        /\ (lp.head = 0 /\ lp.tail = 0) <=> lp.current_list_size = 0

C15_WellFormed == WellFormed(list_ptr, nodes)

\* A node has been removed from the middle of a list of three nodes.
C15_Witness ==
    /\ call.op = "list_remove"
    /\ Len(call.before) = 3
    /\ call.idx_ptr = call.before[2].at
    /\ list_ptr.current_list_size = 2

=============================================================================
